---- MODULE Spec2Model ----
(***************************************************************************)
(* Room / membership bookkeeping and grant issuance of the LiveKit video   *)
(* calling backend (src/main.py, src/livekit_service.py, src/database.py). *)
(*                                                                         *)
(* The relational store (users, rooms, room_memberships) is shared by all  *)
(* request handlers.  Every handler runs in a worker; a handler's database *)
(* statements are the atomic steps: a query sees what is committed at that *)
(* moment, and a commit writes what the session holds.  Next lets workers  *)
(* interleave at those steps (several server processes on one database);   *)
(* NextSeq runs the requests one at a time; NextRooms does so with create  *)
(* requests that carry every max_participants.                             *)
(***************************************************************************)
EXTENDS Integers, Sequences, FiniteSets, TLC

VARIABLES users, rooms, members, req, resp

vars == <<users, rooms, members, req, resp>>

\* ---- bounds of the model ------------------------------------------------
NumWorkers == 2
MaxUsers == 2
MaxRooms == 2
MaxMembers == 2
MaxLive == 1
MaxRoomsShared == 1
MaxUsersRooms == 1

Workers == 1..NumWorkers
RoomIds == 1..MaxRooms
RoomNames == {"standup", "retro"}
\* the max_participants of a create request: left out, null, or an integer
MaxParticipantsInputs ==
    { [sent |-> FALSE, value |-> << >>],
      [sent |-> TRUE, value |-> << >>],
      [sent |-> TRUE, value |-> <<0>>],
      [sent |-> TRUE, value |-> <<-1>>] }
\* a create request that leaves max_participants out
MaxParticipantsOmitted == { b \in MaxParticipantsInputs : ~b.sent }
RegInputs ==
    { [username |-> "alice", email |-> "alice@x"],
      [username |-> "bob", email |-> "bob@x"],
      [username |-> "alice", email |-> "bob@x"] }

\* ---- rows of the store (src/database.py) ---------------------------------
NULL == "NULL"
NOW == "NOW"

\* User(username, email, ...): is_active defaults to True
User(username, email) ==
    [username |-> username, email |-> email, is_active |-> TRUE]

\* max_participants = Column(Integer, default=50)
ColumnDefaultMaxParticipants == 50

\* Room(name, creator_id, max_participants, ...): is_active defaults to
\* True; max_participants is a nullable Integer, << >> is None and <<n>>
\* the integer n.  The unit of work leaves an attribute that is None out of
\* the INSERT, so the column default is stored for it.
Room(name, creator_id, max_participants) ==
    [name |-> name, creator_id |-> creator_id, is_active |-> TRUE,
     max_participants |->
        IF max_participants = << >>
        THEN <<ColumnDefaultMaxParticipants>>
        ELSE max_participants]

\* RoomMembership(user_id, room_id): is_active defaults to True, left_at NULL
RoomMembership(user_id, room_id) ==
    [user_id |-> user_id, room_id |-> room_id, left_at |-> NULL,
     is_active |-> TRUE]

\* ---- requests and responses ----------------------------------------------
Idle ==
    [op |-> "none", pc |-> "idle", user |-> 0, room |-> 0, name |-> "",
     max_participants |-> << >>, loaded |-> {}]

NoResponse ==
    [op |-> "none", status |-> 0, user |-> 0, room |-> 0, name |-> "",
     token |-> <<>>, count |-> 0, gw |-> "none", rooms |-> {},
     signer |-> "none", access_token |-> << >>]

Response(op, status, user, room) ==
    [NoResponse EXCEPT !.op = op, !.status = status, !.user = user,
                       !.room = room]

\* get_current_user resolves the bearer token to a stored user
Authenticated == DOMAIN users

\* authenticate_user(db, email, password): the account of that email when
\* the password verifies, else nothing
authenticate_user(email, password_verifies) ==
    { i \in DOMAIN users : users[i].email = email /\ password_verifies }

\* auth.create_access_token(data={"sub": username}): the session credential
\* of the bearer scheme; it carries no media capability
session_access_token(username) == [sub |-> username]

\* ---- the grant signer (src/livekit_service.py) ---------------------------
\* api.VideoGrants(): every capability is off unless it is passed
VideoGrants ==
    [room_join |-> FALSE, room |-> "", can_publish |-> FALSE,
     can_subscribe |-> FALSE, can_publish_data |-> FALSE,
     room_create |-> FALSE, room_list |-> FALSE, room_admin |-> FALSE]

\* a grant that also carries the room-admin capability
create_access_token_admin(room_name, participant_identity, participant_name, metadata) ==
    [identity |-> participant_identity,
     name |-> participant_name,
     metadata |-> metadata,
     video |-> [VideoGrants EXCEPT !.room_join = TRUE, !.room = room_name,
                                   !.can_publish = TRUE,
                                   !.can_subscribe = TRUE,
                                   !.can_publish_data = TRUE,
                                   !.room_admin = TRUE]]

create_access_token(room_name, participant_identity, participant_name, metadata) ==
    [identity |-> participant_identity,
     name |-> participant_name,
     metadata |-> metadata,
     video |-> [VideoGrants EXCEPT !.room_join = TRUE, !.room = room_name,
                                   !.can_publish = TRUE,
                                   !.can_subscribe = TRUE,
                                   !.can_publish_data = TRUE]]

create_room_admin_token(participant_identity) ==
    [identity |-> participant_identity,
     name |-> "",
     metadata |-> "",
     video |-> [VideoGrants EXCEPT !.room_create = TRUE, !.room_list = TRUE,
                                   !.room_admin = TRUE]]

\* ---- the media-server gateway (src/livekit_service.py) ---------------------
\* Each call is made inside try/except Exception: when the media server
\* cannot be reached the exception is printed and None / False returned.
get_room_info(reachable) == IF reachable THEN "ok" ELSE "failed"

\* a gateway call whose exception escapes
create_room_raising(reachable) == IF reachable THEN "ok" ELSE "raised"

create_room(reachable) == IF reachable THEN "ok" ELSE "failed"

delete_room(reachable) == IF reachable THEN "ok" ELSE "failed"

\* the status a handler ends with: an exception that escapes it is a 500
StatusAfter(result, status) == IF result = "raised" THEN 500 ELSE status

\* ---- request and response schemas (src/schemas.py) -----------------------
DefaultMaxParticipants == 50

\* RoomBase.max_participants: Optional[int] = 50; a field left out takes the
\* default, null and every integer are accepted as they are
RoomBase(max_participants) ==
    IF max_participants.sent
    THEN max_participants.value
    ELSE <<DefaultMaxParticipants>>

\* RoomResponse.max_participants: int; building the response from a room
\* whose max_participants is None raises a validation error
RoomResponse(room) ==
    IF room.max_participants = << >> THEN "raised" ELSE "ok"

\* ---- queries --------------------------------------------------------------
\* db.query(RoomMembership).filter(user_id, room_id, is_active == True)
ActiveMemberships(u, r) ==
    { m \in DOMAIN members :
        /\ members[m].user_id = u
        /\ members[m].room_id = r
        /\ members[m].is_active }

\* db.query(RoomMembership).filter(RoomMembership.room_id == room_id).all()
RoomMemberships(r) == { m \in DOMAIN members : members[m].room_id = r }

\* the unique index on rooms.name: the rows that hold the name
RoomsNamed(name) == { r \in DOMAIN rooms : rooms[r].name = name }

\* a room lookup without its id filter: the first row of the table
find_first_room(room_id) == IF rooms = << >> THEN {} ELSE {1}

\* db.query(Room).filter(Room.id == room_id).first(): the row of that id,
\* whatever its is_active
find_room(room_id) == { r \in DOMAIN rooms : r = room_id }

\* rows a request in flight is still going to insert
PendingInserts(pc) == Cardinality({ q \in Workers : req[q].pc = pc })

\* the room names stored or about to be stored
KnownNames ==
    { rooms[r].name : r \in DOMAIN rooms } \cup
    { req[q].name : q \in { w \in Workers : req[w].pc = "create_commit" } }

Init ==
    /\ users = <<>>
    /\ rooms = <<>>
    /\ members = <<>>
    /\ req = [p \in Workers |-> Idle]
    /\ resp = NoResponse

\* ---- GET /health ------------------------------------------------------------
\* lines 50-53
health_check(p) ==
    /\ req[p].pc = "idle"
    /\ UNCHANGED <<users, rooms, members, req>>
    /\ resp' = Response("health", 200, 0, 0)

\* ---- POST /auth/login -----------------------------------------------------
\* lines 91-105
login_user(p, email, password_verifies) ==
    /\ req[p].pc = "idle"
    /\ UNCHANGED <<users, rooms, members, req>>
    /\ IF authenticate_user(email, password_verifies) = {}
       THEN resp' = Response("login", 401, 0, 0)
       ELSE \E user \in authenticate_user(email, password_verifies) :
               resp' = [Response("login", 200, user, 0) EXCEPT
                          !.access_token =
                             << session_access_token(users[user].username) >>]

\* ---- GET /auth/me ---------------------------------------------------------
\* lines 107-116
get_current_user_info(p, u) ==
    /\ req[p].pc = "idle"
    /\ UNCHANGED <<users, rooms, members, req>>
    /\ resp' = [Response("me", 200, u, 0) EXCEPT !.name = users[u].username]

\* ---- POST /auth/register ---------------------------------------------------
\* a lookup by email alone
existing_user_by_email(user) ==
    { i \in DOMAIN users : users[i].email = user.email }

\* lines 61-63: the accounts with the email or the username submitted
existing_user(user) ==
    { i \in DOMAIN users :
        users[i].email = user.email \/ users[i].username = user.username }

\* the unique indexes on users.username and users.email
UsersHolding(user) ==
    { i \in DOMAIN users :
        users[i].username = user.username \/ users[i].email = user.email }

\* lines 57-89; a commit the unique indexes refuse raises (500)
register_user(p, user) ==
    /\ req[p].pc = "idle"
    /\ UNCHANGED <<rooms, members, req>>
    /\ IF existing_user(user) # {}
       THEN /\ resp' = [Response("register", 400, 0, 0) EXCEPT
                          !.name = user.username]
            /\ UNCHANGED users
       ELSE /\ Len(users) < MaxUsers
            /\ IF UsersHolding(user) # {}
               THEN /\ resp' = [Response("register", 500, 0, 0) EXCEPT
                                  !.name = user.username]
                    /\ UNCHANGED users
               ELSE /\ users' = Append(users, User(user.username, user.email))
                    /\ resp' = [Response("register", 201, Len(users) + 1, 0)
                                  EXCEPT !.name = user.username]

\* ---- POST /rooms/{room_id}/join --------------------------------------------
\* the query without its room_id filter
existing_membership_any_room(u, room_id) ==
    { m \in DOMAIN members :
        members[m].user_id = u /\ members[m].is_active }

\* lines 253-257: the active membership rows of the user in the room
existing_membership(u, room_id) == ActiveMemberships(u, room_id)

\* lines 245-259: room lookup and the query for an active membership;
\* .first() yields one of the rows that match, or None
JoinQuery(p, u, room_id) ==
    /\ req[p].pc = "idle"
    /\ UNCHANGED <<users, rooms, members>>
    /\ IF find_room(room_id) = {}
       THEN /\ resp' = Response("join", 404, u, room_id)
            /\ UNCHANGED req
       ELSE /\ Len(members) + PendingInserts("join_insert") < MaxMembers
            /\ \/ /\ existing_membership(u, room_id) = {}
                  /\ req' = [req EXCEPT ![p] =
                        [Idle EXCEPT !.op = "join", !.user = u,
                           !.room = room_id, !.pc = "join_insert"]]
               \/ \E m \in existing_membership(u, room_id) :
                     req' = [req EXCEPT ![p] =
                        [Idle EXCEPT !.op = "join", !.user = u,
                           !.room = room_id, !.pc = "join_token",
                           !.loaded = {m}]]
            /\ resp' = NoResponse

\* a join that reactivates a historical row of the pair instead of inserting
RejoinedMembers(u, room_id) ==
    LET old == { m \in DOMAIN members :
                   /\ members[m].user_id = u
                   /\ members[m].room_id = room_id
                   /\ ~members[m].is_active }
    IN IF old = {}
       THEN Append(members, RoomMembership(u, room_id))
       ELSE [members EXCEPT ![CHOOSE m \in old : TRUE].is_active = TRUE]

\* lines 260-266: db.add(membership); db.commit()
JoinedMembers(u, room_id) == Append(members, RoomMembership(u, room_id))

JoinCommit(p) ==
    /\ req[p].pc = "join_insert"
    /\ members' = JoinedMembers(req[p].user, req[p].room)
    /\ req' = [req EXCEPT ![p].pc = "join_token"]
    /\ UNCHANGED <<users, rooms>>
    /\ resp' = NoResponse

\* a join that calls the admin-grant method of the signer
issue_admin_grant(room_name, u) ==
    [signer |-> "create_room_admin_token",
     token |-> create_room_admin_token(ToString(u))]

\* lines 269-274: the one call of the grant signer in the API layer
issue_join_grant(room_name, u) ==
    [signer |-> "create_access_token",
     token |-> create_access_token(room_name, ToString(u),
                                   users[u].username,
                                   "user_id:" \o ToString(u))]

\* lines 268-281: the grant and the TokenResponse
JoinToken(p) ==
    /\ req[p].pc = "join_token"
    /\ resp' = [Response("join", 200, req[p].user, req[p].room) EXCEPT
                  !.name = rooms[req[p].room].name,
                  !.token = << issue_join_grant(rooms[req[p].room].name,
                                                req[p].user).token >>,
                  !.signer = issue_join_grant(rooms[req[p].room].name,
                                              req[p].user).signer]
    /\ req' = [req EXCEPT ![p] = Idle]
    /\ UNCHANGED <<users, rooms, members>>

\* ---- POST /rooms/{room_id}/leave -------------------------------------------
\* lines 290-294: the active membership rows of the user in the room
leaving_membership(u, room_id) == ActiveMemberships(u, room_id)

\* lines 290-294 and the no-op return of line 301
LeaveQuery(p, u, room_id) ==
    /\ req[p].pc = "idle"
    /\ UNCHANGED <<users, rooms, members>>
    /\ IF leaving_membership(u, room_id) = {}
       THEN /\ resp' = Response("leave", 200, u, room_id)
            /\ UNCHANGED req
       ELSE /\ \E m \in leaving_membership(u, room_id) :
                  req' = [req EXCEPT ![p] =
                     [Idle EXCEPT !.op = "leave", !.user = u,
                        !.room = room_id, !.pc = "leave_commit",
                        !.loaded = {m}]]
            /\ resp' = NoResponse

\* lines 297-298: membership.is_active = False; membership.left_at = NOW()
LeftMembership(membership) ==
    [membership EXCEPT !.is_active = FALSE, !.left_at = NOW]

\* lines 296-301; db.execute of a bare SQL string raises on SQLAlchemy 2.x
\* (nothing was flushed, the request ends in a 500)
LeaveCommit(p) ==
    /\ req[p].pc = "leave_commit"
    /\ req' = [req EXCEPT ![p] = Idle]
    /\ UNCHANGED <<users, rooms>>
    /\ \/ /\ members' = [m \in DOMAIN members |->
                            IF m \in req[p].loaded
                            THEN LeftMembership(members[m]) ELSE members[m]]
          /\ resp' = Response("leave", 200, req[p].user, req[p].room)
       \/ /\ resp' = Response("leave", 500, req[p].user, req[p].room)
          /\ UNCHANGED members

\* ---- DELETE /rooms/{room_id} -----------------------------------------------
\* a delete without its creator check
IsAnyUser(room, u) == TRUE

\* line 317
IsCreator(room, u) == room.creator_id = u

\* lines 310-329: lookup, creator check, the memberships of the room
DeleteQuery(p, u, room_id) ==
    /\ req[p].pc = "idle"
    /\ UNCHANGED <<users, rooms, members>>
    /\ IF find_room(room_id) = {}
       THEN /\ resp' = Response("delete", 404, u, room_id)
            /\ UNCHANGED req
       ELSE IF ~IsCreator(rooms[room_id], u)
       THEN /\ resp' = Response("delete", 403, u, room_id)
            /\ UNCHANGED req
       ELSE /\ req' = [req EXCEPT ![p] =
                  [Idle EXCEPT !.op = "delete", !.user = u, !.room = room_id,
                     !.pc = "delete_commit",
                     !.loaded = RoomMemberships(room_id)]]
            /\ resp' = NoResponse

\* a delete that flips the flag instead of clearing it
ToggledRoom(room) == [room EXCEPT !.is_active = ~room.is_active]

\* line 324
DeletedRoom(room) == [room EXCEPT !.is_active = FALSE]

\* a cascade that flips the flag of the row
ToggledMembership(membership) ==
    [membership EXCEPT !.is_active = ~membership.is_active]

\* a cascade that stamps the row and leaves it active
StampedMembership(membership) == [membership EXCEPT !.left_at = NOW]

\* line 329
DeletedMembership(membership) == [membership EXCEPT !.is_active = FALSE]

\* a cascade that deletes the rows it loaded
PurgedMembers(loaded) ==
    LET kept[i \in 0..Len(members)] ==
            IF i = 0 THEN << >>
            ELSE IF i \in loaded THEN kept[i - 1]
            ELSE Append(kept[i - 1], members[i])
    IN kept[Len(members)]

\* lines 328-331: the loaded memberships are updated in place
CascadedMembers(loaded) ==
    [m \in DOMAIN members |->
        IF m \in loaded THEN DeletedMembership(members[m]) ELSE members[m]]

\* line 331: db.commit() writes the room and the memberships loaded
DeleteCommit(p) ==
    /\ req[p].pc = "delete_commit"
    /\ rooms' = [rooms EXCEPT ![req[p].room] = DeletedRoom(@)]
    /\ members' = CascadedMembers(req[p].loaded)
    /\ req' = [req EXCEPT ![p].pc = "delete_gateway"]
    /\ UNCHANGED users
    /\ resp' = NoResponse

\* lines 333-336
DeleteGateway(p) ==
    /\ req[p].pc = "delete_gateway"
    /\ \E reachable \in BOOLEAN :
          resp' = [Response("delete",
                            StatusAfter(delete_room(reachable), 200),
                            req[p].user, req[p].room) EXCEPT
                     !.gw = delete_room(reachable)]
    /\ req' = [req EXCEPT ![p] = Idle]
    /\ UNCHANGED <<users, rooms, members>>

\* ---- POST /rooms -----------------------------------------------------------
\* a name lookup that skips the soft-deleted rooms
existing_active_room(name) ==
    { r \in DOMAIN rooms : rooms[r].name = name /\ rooms[r].is_active }

\* line 128: the lookup reads every room row, active or not
existing_room(name) == { r \in DOMAIN rooms : rooms[r].name = name }

\* lines 127-133
CreateQuery(p, u, name, max_participants) ==
    /\ req[p].pc = "idle"
    /\ UNCHANGED <<users, rooms, members>>
    /\ IF existing_room(name) # {}
       THEN /\ resp' = [Response("create", 400, u, 0) EXCEPT !.name = name]
            /\ UNCHANGED req
       ELSE /\ Cardinality(KnownNames \cup {name}) <= MaxRooms
            /\ req' = [req EXCEPT ![p] =
                  [Idle EXCEPT !.op = "create", !.user = u, !.name = name,
                     !.max_participants = RoomBase(max_participants),
                     !.pc = "create_commit"]]
            /\ resp' = NoResponse

\* a create that goes on to the gateway call with its row not yet committed
CreateCommitRemoteFirst(p) ==
    /\ req[p].pc = "create_commit"
    /\ UNCHANGED <<users, rooms, members>>
    /\ req' = [req EXCEPT ![p].pc = "create_gateway",
                          ![p].room = Len(rooms) + 1]
    /\ resp' = NoResponse

\* lines 135-146; rooms.name is unique in the store, so the commit of a
\* name that was taken meanwhile raises (500)
CreateCommit(p) ==
    /\ req[p].pc = "create_commit"
    /\ UNCHANGED <<users, members>>
    /\ IF RoomsNamed(req[p].name) # {}
       THEN /\ resp' = [Response("create", 500, req[p].user, 0) EXCEPT
                          !.name = req[p].name]
            /\ req' = [req EXCEPT ![p] = Idle]
            /\ UNCHANGED rooms
       ELSE /\ rooms' = Append(rooms, Room(req[p].name, req[p].user,
                                            req[p].max_participants))
            /\ req' = [req EXCEPT ![p].pc = "create_gateway",
                                  ![p].room = Len(rooms) + 1]
            /\ resp' = NoResponse

\* lines 148-161
CreateGateway(p) ==
    /\ req[p].pc = "create_gateway"
    /\ \E reachable \in BOOLEAN :
          resp' = [Response("create",
                            StatusAfter(create_room(reachable),
                               StatusAfter(RoomResponse(rooms[req[p].room]),
                                           201)),
                            req[p].user, req[p].room) EXCEPT
                     !.name = req[p].name,
                     !.gw = create_room(reachable)]
    /\ req' = [req EXCEPT ![p] = Idle]
    /\ UNCHANGED <<users, rooms, members>>

\* ---- GET /rooms ------------------------------------------------------------
\* a count of every membership row of the room, active or not
membership_count(room_id) ==
    Cardinality({ m \in DOMAIN members : members[m].room_id = room_id })

\* lines 174-177: the membership rows of the room with is_active == True
participant_count(room_id) ==
    Cardinality({ m \in DOMAIN members :
                    members[m].room_id = room_id /\ members[m].is_active })

\* line 169: the rooms with is_active == True
active_rooms == { r \in DOMAIN rooms : rooms[r].is_active }

\* lines 163-191: one RoomResponse per active room; the handler raises when
\* one of them cannot be built
list_rooms(p, u) ==
    /\ req[p].pc = "idle"
    /\ UNCHANGED <<users, rooms, members, req>>
    /\ IF \E r \in active_rooms : RoomResponse(rooms[r]) = "raised"
       THEN resp' = Response("list", 500, u, 0)
       ELSE resp' = [Response("list", 200, u, 0) EXCEPT
                       !.rooms = { [id |-> r, name |-> rooms[r].name,
                                    participant_count |-> participant_count(r)]
                                   : r \in active_rooms }]

\* ---- GET /rooms/{room_id} --------------------------------------------------
\* lines 200-205
DetailsQuery(p, u, room_id) ==
    /\ req[p].pc = "idle"
    /\ UNCHANGED <<users, rooms, members>>
    /\ IF find_room(room_id) = {}
       THEN /\ resp' = Response("details", 404, u, room_id)
            /\ UNCHANGED req
       ELSE /\ req' = [req EXCEPT ![p] =
                  [Idle EXCEPT !.op = "details", !.user = u,
                     !.room = room_id, !.pc = "details_gateway"]]
            /\ resp' = NoResponse

\* lines 209-223: the participants listed, none when room_info is None
participants(room_info, live) == IF room_info = "ok" THEN live ELSE 0

\* lines 207-236; live is the number of participants the media server lists
DetailsGateway(p) ==
    /\ req[p].pc = "details_gateway"
    /\ \E reachable \in BOOLEAN, live \in 0..MaxLive :
          /\ reachable \/ live = 0
          /\ resp' = [Response("details",
                               StatusAfter(get_room_info(reachable),
                                  StatusAfter(RoomResponse(rooms[req[p].room]),
                                              200)),
                               req[p].user, req[p].room)
                        EXCEPT !.name = rooms[req[p].room].name,
                               !.count = participants(
                                            get_room_info(reachable), live),
                               !.gw = get_room_info(reachable)]
    /\ req' = [req EXCEPT ![p] = Idle]
    /\ UNCHANGED <<users, rooms, members>>

\* ---- the specifications ----------------------------------------------------
\* one step of the request worker p serves; create requests carry a
\* max_participants of the set bodies
Step(p, bodies) ==
    \/ health_check(p)
    \/ \E user \in RegInputs : register_user(p, user)
    \/ \E user \in RegInputs, password_verifies \in BOOLEAN :
          login_user(p, user.email, password_verifies)
    \/ \E u \in Authenticated : get_current_user_info(p, u)
    \/ \E u \in Authenticated, name \in RoomNames, max_participants \in bodies :
          CreateQuery(p, u, name, max_participants)
    \/ CreateCommit(p)
    \/ CreateGateway(p)
    \/ \E u \in Authenticated : list_rooms(p, u)
    \/ \E u \in Authenticated, r \in RoomIds : DetailsQuery(p, u, r)
    \/ DetailsGateway(p)
    \/ \E u \in Authenticated, r \in RoomIds : JoinQuery(p, u, r)
    \/ JoinCommit(p)
    \/ JoinToken(p)
    \/ \E u \in Authenticated, r \in RoomIds : LeaveQuery(p, u, r)
    \/ LeaveCommit(p)
    \/ \E u \in Authenticated, r \in RoomIds : DeleteQuery(p, u, r)
    \/ DeleteCommit(p)
    \/ DeleteGateway(p)

\* requests run one at a time: one worker serves them all; the create
\* requests leave max_participants out
NextSeq == Step(1, MaxParticipantsOmitted)

SpecSeq == Init /\ [][NextSeq]_vars

\* the accounts registered while create requests carry every
\* max_participants are bounded by MaxUsersRooms
FewUsers == Len(users) < MaxUsersRooms

\* requests run one at a time and create requests carry every
\* max_participants of MaxParticipantsInputs
NextRooms ==
    \/ health_check(1)
    \/ \E user \in RegInputs : FewUsers /\ register_user(1, user)
    \/ \E user \in RegInputs, password_verifies \in BOOLEAN :
          login_user(1, user.email, password_verifies)
    \/ \E u \in Authenticated : get_current_user_info(1, u)
    \/ \E u \in Authenticated, name \in RoomNames,
          max_participants \in MaxParticipantsInputs :
             CreateQuery(1, u, name, max_participants)
    \/ CreateCommit(1)
    \/ CreateGateway(1)
    \/ \E u \in Authenticated : list_rooms(1, u)
    \/ \E u \in Authenticated, r \in RoomIds : DetailsQuery(1, u, r)
    \/ DetailsGateway(1)
    \/ \E u \in Authenticated, r \in RoomIds : JoinQuery(1, u, r)
    \/ JoinCommit(1)
    \/ JoinToken(1)
    \/ \E u \in Authenticated, r \in RoomIds : LeaveQuery(1, u, r)
    \/ LeaveCommit(1)
    \/ \E u \in Authenticated, r \in RoomIds : DeleteQuery(1, u, r)
    \/ DeleteCommit(1)
    \/ DeleteGateway(1)

SpecRooms == Init /\ [][NextRooms]_vars

\* the rooms the workers share while they interleave are bounded by
\* MaxRoomsShared
SharedRoom(name) == Cardinality(KnownNames \cup {name}) <= MaxRoomsShared

\* workers interleave at their database statements; the create requests
\* leave max_participants out
Next ==
    \E p \in Workers :
        \/ health_check(p)
        \/ \E user \in RegInputs : register_user(p, user)
        \/ \E user \in RegInputs, password_verifies \in BOOLEAN :
              login_user(p, user.email, password_verifies)
        \/ \E u \in Authenticated : get_current_user_info(p, u)
        \/ \E u \in Authenticated, name \in RoomNames,
              max_participants \in MaxParticipantsOmitted :
                 SharedRoom(name) /\ CreateQuery(p, u, name, max_participants)
        \/ CreateCommit(p)
        \/ CreateGateway(p)
        \/ \E u \in Authenticated : list_rooms(p, u)
        \/ \E u \in Authenticated, r \in RoomIds : DetailsQuery(p, u, r)
        \/ DetailsGateway(p)
        \/ \E u \in Authenticated, r \in RoomIds : JoinQuery(p, u, r)
        \/ JoinCommit(p)
        \/ JoinToken(p)
        \/ \E u \in Authenticated, r \in RoomIds : LeaveQuery(p, u, r)
        \/ LeaveCommit(p)
        \/ \E u \in Authenticated, r \in RoomIds : DeleteQuery(p, u, r)
        \/ DeleteCommit(p)
        \/ DeleteGateway(p)

Spec == Init /\ [][Next]_vars

\* ---- the claims -------------------------------------------------------------
\* the rows of the store that are active for a (user, room) pair
ActiveRows(u, r) ==
    { m \in DOMAIN members :
        /\ members[m].user_id = u
        /\ members[m].room_id = r
        /\ members[m].is_active }

RowsOfRoom(r) == { m \in DOMAIN members : members[m].room_id = r }

\* C1: in every reachable state, also when join requests of the same user
\* for the same room interleave between their query and their insert, at
\* most one membership row of a (user_id, room_id) pair is active.
C1_OneActiveRowPerPair ==
    \A u \in DOMAIN users, r \in DOMAIN rooms :
        Cardinality(ActiveRows(u, r)) <= 1

\* C2: after delete(r) by the creator, a later join(r) is answered 404: no
\* join of a deleted room gets past the room lookup (so it inserts no row
\* and prepares no grant), and the answer to it is 404 without a token.
C2_JoinOfDeletedRoomNotFound ==
    /\ \A p \in Workers :
          req[p].op = "join" => rooms[req[p].room].is_active
    /\ (/\ resp.op = "join"
        /\ resp.room \in DOMAIN rooms
        /\ ~rooms[resp.room].is_active)
          => (resp.status = 404 /\ resp.token = <<>>)

\* C3: the commit of delete(r) by r's creator leaves r inactive and every
\* membership row of r inactive, whatever the rows were before; the rows of
\* other rooms, and the other rooms, are unchanged.
C3_DeleteDeactivatesRoomAndItsRows ==
    [][\A p \in Workers :
          (req[p].pc = "delete_commit" /\ req'[p].pc = "delete_gateway") =>
             LET r == req[p].room IN
             /\ ~rooms'[r].is_active
             /\ DOMAIN members' = DOMAIN members
             /\ \A m \in DOMAIN members :
                   IF members[m].room_id = r
                   THEN /\ ~members'[m].is_active
                        /\ members'[m].room_id = r
                        /\ members'[m].user_id = members[m].user_id
                   ELSE members'[m] = members[m]
             /\ DOMAIN rooms' = DOMAIN rooms
             /\ \A o \in DOMAIN rooms \ {r} : rooms'[o] = rooms[o]]_vars

\* a delete has just been committed on a room whose row was active before
\* it, while an active row of another room is still there
C3_Witness ==
    \E p \in Workers :
        /\ req[p].pc = "delete_gateway"
        /\ \E m \in RowsOfRoom(req[p].room) :
              ~members[m].is_active /\ members[m].left_at = NULL
        /\ \E m \in DOMAIN members :
              members[m].room_id # req[p].room /\ members[m].is_active

\* C4: delete(r) by an authenticated user who is not r's creator is answered
\* 403, changes no room and no membership row, gets no further than the
\* creator check (so no commit and no gateway delete call is made for it).
C4_DeleteByNonCreatorForbidden ==
    [][/\ \A p \in Workers :
             req'[p].op = "delete" =>
                rooms'[req'[p].room].creator_id = req'[p].user
       /\ (/\ resp'.op = "delete"
           /\ resp'.room \in DOMAIN rooms
           /\ rooms[resp'.room].creator_id # resp'.user)
             => /\ resp'.status = 403
                /\ resp'.gw = "none"
                /\ UNCHANGED <<users, rooms, members, req>>]_vars

\* a delete by another user than the creator was answered 403 on an active
\* room that has an active membership row
C4_Witness ==
    /\ resp.op = "delete"
    /\ resp.status = 403
    /\ rooms[resp.room].is_active
    /\ rooms[resp.room].creator_id # resp.user
    /\ \E m \in RowsOfRoom(resp.room) : members[m].is_active

\* C5: with requests one at a time, a join by u on r while u has an active
\* row for r reuses it and inserts nothing, and every join that returns a
\* token leaves exactly one active row for (u, r): two joins in a row end
\* with one active row and two tokens.
C5_SecondJoinReusesActiveRow ==
    [][\A p \in Workers :
          /\ (/\ req[p].pc = "idle"
              /\ req'[p].op = "join"
              /\ ActiveRows(req'[p].user, req'[p].room) # {})
                => (req'[p].pc = "join_token" /\ UNCHANGED members)
          /\ (req[p].pc = "join_token" /\ req'[p].pc = "idle")
                => /\ UNCHANGED members
                   /\ resp'.op = "join"
                   /\ resp'.status = 200
                   /\ Len(resp'.token) = 1
                   /\ Cardinality(ActiveRows(req[p].user, req[p].room)) = 1
      ]_vars

\* a join found the active row of an earlier join and is about to return
\* its token
C5_Witness ==
    \E p \in Workers :
        /\ req[p].pc = "join_token"
        /\ req[p].loaded # {}
        /\ req[p].loaded = ActiveRows(req[p].user, req[p].room)
        /\ Len(members) = 1

\* C6: every token a response carries is the room-join grant of a join: its
\* identity is the string form of the user's id, it is scoped to the name of
\* the joined room with join, publish, subscribe and publish_data on, and
\* room_create, room_list and room_admin off.
C6_JoinGrantClaims ==
    resp.token # <<>> =>
        /\ resp.op = "join"
        /\ resp.status = 200
        /\ Len(resp.token) = 1
        /\ resp.token[1].identity = ToString(resp.user)
        /\ resp.name = rooms[resp.room].name
        /\ resp.token[1].video =
              [room_join |-> TRUE, room |-> rooms[resp.room].name,
               can_publish |-> TRUE, can_subscribe |-> TRUE,
               can_publish_data |-> TRUE, room_create |-> FALSE,
               room_list |-> FALSE, room_admin |-> FALSE]

\* the second user got a token for a room
C6_Witness ==
    /\ resp.token # <<>>
    /\ resp.user = 2
    /\ resp.token[1].identity = "2"
    /\ resp.token[1].video.room \in RoomNames

\* C7: every membership row that is inactive has left_at set, whether a
\* leave or the cascade of a room deletion made it inactive.
C7_InactiveRowsHaveLeftAt ==
    \A m \in DOMAIN members :
        ~members[m].is_active => members[m].left_at # NULL

\* C8: no step changes a room's is_active from false to true, and no room
\* row disappears.
C8_RoomNeverReactivated ==
    [][\A r \in DOMAIN rooms :
          /\ r \in DOMAIN rooms'
          /\ ~rooms[r].is_active => ~rooms'[r].is_active]_vars

\* a delete is about to commit on a room that is already deleted
C8_Witness ==
    \E p \in Workers :
        /\ req[p].pc = "delete_commit"
        /\ ~rooms[req[p].room].is_active

\* C9: no step sets is_active of an existing membership row from false to
\* true; a join that finds no active row of the pair inserts one new active
\* row at its commit and leaves every existing row as it is.
C9_InactiveIsTerminal ==
    [][/\ \A m \in DOMAIN members :
             /\ m \in DOMAIN members'
             /\ ~members[m].is_active => ~members'[m].is_active
       /\ \A p \in Workers :
             /\ (/\ req[p].pc = "idle"
                 /\ req'[p].op = "join"
                 /\ ActiveRows(req'[p].user, req'[p].room) = {})
                   => req'[p].pc = "join_insert"
             /\ (req[p].pc = "join_insert" /\ req'[p].pc = "join_token")
                   => /\ Len(members') = Len(members) + 1
                      /\ members'[Len(members')] =
                            [user_id |-> req[p].user, room_id |-> req[p].room,
                             left_at |-> NULL, is_active |-> TRUE]
                      /\ \A m \in DOMAIN members : members'[m] = members[m]
      ]_vars

\* after a leave and a new join the pair has its historical inactive row
\* and a new active one
C9_Witness ==
    \E m \in DOMAIN members, n \in DOMAIN members :
        /\ m < n
        /\ members[m].user_id = members[n].user_id
        /\ members[m].room_id = members[n].room_id
        /\ ~members[m].is_active
        /\ members[m].left_at = NOW
        /\ members[n].is_active

\* C10: the step in which create room, delete room or get room details
\* calls the gateway changes no row and answers 201, 200 and 200, also when
\* the call fails: the created room is in the store, the deleted room and
\* its membership rows are inactive, and the details of a failed call list
\* no participant.
C10_GatewayFailureSwallowed ==
    [][resp'.gw # "none" =>
          /\ UNCHANGED <<users, rooms, members>>
          /\ resp'.op \in {"create", "delete", "details"}
          /\ resp'.op = "create" =>
                /\ resp'.status = 201
                /\ resp'.room \in DOMAIN rooms
                /\ rooms[resp'.room].name = resp'.name
                /\ rooms[resp'.room].is_active
          /\ resp'.op = "delete" =>
                /\ resp'.status = 200
                /\ ~rooms[resp'.room].is_active
                /\ \A m \in RowsOfRoom(resp'.room) : ~members[m].is_active
          /\ resp'.op = "details" =>
                /\ resp'.status = 200
                /\ resp'.gw # "ok" => resp'.count = 0]_vars

\* a delete whose gateway call failed was answered 200, its room and the
\* membership row of the room inactive
C10_Witness ==
    /\ resp.op = "delete"
    /\ resp.gw = "failed"
    /\ resp.status = 200
    /\ RowsOfRoom(resp.room) # {}

\* C11: in create and delete the local change is committed before the
\* gateway call is attempted: a request enters its gateway step only from
\* its commit, which has written that change, and the step that makes the
\* call finds the room row stored (create) or already inactive (delete).
\* A request rejected locally (400 duplicate name, 404 not found, 403 not
\* creator, 500 at the commit) answers without a gateway call.
C11_CommitBeforeGatewayCall ==
    [][/\ \A p \in Workers :
            /\ (req[p].pc = "create_gateway" /\ req'[p].pc = "idle") =>
                  /\ req[p].room \in DOMAIN rooms
                  /\ rooms[req[p].room].name = req[p].name
            /\ (req[p].pc = "delete_gateway" /\ req'[p].pc = "idle") =>
                  ~rooms[req[p].room].is_active
            /\ (req'[p].pc = "create_gateway" /\ req[p].pc # "create_gateway")
                  => /\ req[p].pc = "create_commit"
                     /\ req'[p].room \in DOMAIN rooms'
                     /\ rooms'[req'[p].room].name = req'[p].name
            /\ (req'[p].pc = "delete_gateway" /\ req[p].pc # "delete_gateway")
                  => /\ req[p].pc = "delete_commit"
                     /\ ~rooms'[req'[p].room].is_active
       /\ resp'.gw # "none" =>
             \E p \in Workers :
                /\ req[p].pc \in {"create_gateway", "delete_gateway",
                                  "details_gateway"}
                /\ req'[p].pc = "idle"
       /\ (/\ resp'.op \in {"create", "delete"}
           /\ resp'.status \in {400, 403, 404, 500}) =>
             /\ resp'.gw = "none"
             /\ \A p \in Workers :
                   req'[p].pc \notin {"create_gateway", "delete_gateway"}
                   \/ req'[p] = req[p]]_vars

\* a create answered 201 after its gateway call, its row stored
C11_Witness ==
    /\ resp.op = "create"
    /\ resp.status = 201
    /\ resp.gw = "ok"
    /\ resp.room \in DOMAIN rooms
    /\ rooms[resp.room].name = resp.name

\* C12: room names are unique over all room rows, active or soft-deleted.
\* A create room whose name a stored row already has, deleted or not, is
\* answered 400 and leaves the store unchanged: a create request gets past
\* its name lookup only when no row has the name, and every row added has
\* a name no row had.
C12_RoomNamesUnique ==
    [][/\ \A r1 \in DOMAIN rooms', r2 \in DOMAIN rooms' :
            rooms'[r1].name = rooms'[r2].name => r1 = r2
       /\ (resp'.op = "create" /\ resp'.status = 400) =>
             /\ \E r \in DOMAIN rooms : rooms[r].name = resp'.name
             /\ UNCHANGED <<users, rooms, members, req>>
       /\ \A p \in Workers :
             (req[p].pc = "idle" /\ req'[p].pc = "create_commit") =>
                \A r \in DOMAIN rooms : rooms[r].name # req'[p].name
       /\ \A r \in DOMAIN rooms' \ DOMAIN rooms :
             \A r0 \in DOMAIN rooms : rooms[r0].name # rooms'[r].name]_vars

\* a create refused for the name of a soft-deleted room
C12_Witness ==
    /\ resp.op = "create"
    /\ resp.status = 400
    /\ \E r \in DOMAIN rooms : rooms[r].name = resp.name /\ ~rooms[r].is_active

\* C13: a registration whose email or username equals that of a stored
\* account is answered 400: every register step either answers 400 and
\* leaves the accounts as they were, or answers 201 and appends one account
\* whose email and username no stored account had.  No two accounts share
\* an email or a username, and the accounts stored before stay unchanged.
C13_DuplicateRegistrationRejected ==
    [][/\ resp'.op = "register" =>
             \/ /\ resp'.status = 400
                /\ users' = users
             \/ /\ resp'.status = 201
                /\ Len(users') = Len(users) + 1
                /\ resp'.user = Len(users')
                /\ \A i \in DOMAIN users :
                      /\ users[i].email # users'[Len(users')].email
                      /\ users[i].username # users'[Len(users')].username
       /\ \A i \in DOMAIN users : i \in DOMAIN users' /\ users'[i] = users[i]
       /\ \A i \in DOMAIN users', j \in DOMAIN users' :
             (\/ users'[i].email = users'[j].email
              \/ users'[i].username = users'[j].username) => i = j]_vars

\* a registration refused for its email alone: no stored account has the
\* username submitted
C13_Witness ==
    /\ resp.op = "register"
    /\ resp.status = 400
    /\ users # <<>>
    /\ \A i \in DOMAIN users : users[i].username # resp.name

\* the active rows of room r in the membership table mem
ActiveIn(mem, r) ==
    { m \in DOMAIN mem : mem[m].room_id = r /\ mem[m].is_active }

\* C14: list rooms answers with exactly the rooms whose is_active is true,
\* each with a participant_count equal to the number of active membership
\* rows of that room.  The count of a room is 0 when its row is committed,
\* and the commit of a join by a user who had no active membership of the
\* room raises it by one.
C14_ListRoomsCounts ==
    [][/\ resp'.op = "list" =>
             /\ resp'.status = 200
             /\ resp'.rooms =
                   { [id |-> r, name |-> rooms'[r].name,
                      participant_count |-> Cardinality(ActiveIn(members', r))]
                     : r \in { x \in DOMAIN rooms' : rooms'[x].is_active } }
       /\ \A p \in Workers :
             /\ (req[p].pc = "create_commit" /\ req'[p].pc = "create_gateway")
                   => ActiveIn(members', req'[p].room) = {}
             /\ (req[p].pc = "join_insert" /\ req'[p].pc = "join_token") =>
                   Cardinality(ActiveIn(members', req[p].room)) =
                      Cardinality(ActiveIn(members, req[p].room)) + 1]_vars

\* a list that counts one participant in a room that also has a row of a
\* member who left
C14_Witness ==
    /\ resp.op = "list"
    /\ \E e \in resp.rooms :
          /\ e.participant_count = 1
          /\ \E m \in DOMAIN members :
                members[m].room_id = e.id /\ ~members[m].is_active

\* C15: no step removes a row: the user, room and membership tables only
\* grow, every row stored stays at its id with the columns that identify
\* it, and a delete or a leave changes flags of rows that remain.
C15_RowsNeverDeleted ==
    [][/\ \A i \in DOMAIN users : i \in DOMAIN users' /\ users'[i] = users[i]
       /\ \A r \in DOMAIN rooms :
             /\ r \in DOMAIN rooms'
             /\ rooms'[r].name = rooms[r].name
             /\ rooms'[r].creator_id = rooms[r].creator_id
       /\ \A m \in DOMAIN members :
             /\ m \in DOMAIN members'
             /\ members'[m].user_id = members[m].user_id
             /\ members'[m].room_id = members[m].room_id
       /\ \A p \in Workers :
             (req[p].pc \in {"delete_commit", "leave_commit"}
                /\ req'[p] # req[p]) =>
                /\ Len(rooms') = Len(rooms)
                /\ Len(members') = Len(members)]_vars

\* a room was deleted with two membership rows, one of a member who had left
C15_Witness ==
    \E r \in DOMAIN rooms :
       /\ ~rooms[r].is_active
       /\ Cardinality(RowsOfRoom(r)) = 2
       /\ \A m \in RowsOfRoom(r) : ~members[m].is_active
       /\ \E m \in RowsOfRoom(r) : members[m].left_at = NOW

\* C16: a leave by a user with no active membership row of the room answers
\* 200 and changes no row; a leave by a user with an active row answers 200
\* and sets that row, and no other, to is_active = false with left_at set;
\* no room and no user changes.
C16_LeaveFrame ==
    [][resp'.op = "leave" =>
          /\ resp'.status = 200
          /\ UNCHANGED <<users, rooms>>
          /\ IF ActiveRows(resp'.user, resp'.room) = {}
             THEN UNCHANGED members
             ELSE \E m \in ActiveRows(resp'.user, resp'.room) :
                     members' = [members EXCEPT ![m].is_active = FALSE,
                                                ![m].left_at = NOW]]_vars

\* C17: every stored room has a max_participants that is an integer of at
\* least 1: create room never stores 0, a negative number or no value.
C17_MaxParticipantsPositive ==
    \A r \in DOMAIN rooms :
       /\ Len(rooms[r].max_participants) = 1
       /\ rooms[r].max_participants[1] >= 1

\* C18: join, delete and get details on a room id that names no room row
\* answer 404 and change nothing: no row is inserted or updated, no request
\* goes on to a later step, no gateway call is made and no grant issued.
\* A grant is issued only for the name of a stored room.
C18_UnknownRoomNotFound ==
    [][/\ (/\ resp'.op \in {"join", "delete", "details"}
           /\ resp'.room \notin DOMAIN rooms) => resp'.status = 404
       /\ resp'.status = 404 =>
             /\ resp'.room \notin DOMAIN rooms
             /\ UNCHANGED <<users, rooms, members, req>>
             /\ resp'.token = << >>
             /\ resp'.gw = "none"
       /\ \A p \in Workers :
             req'[p].op \in {"join", "delete", "details"} =>
                req'[p].room \in DOMAIN rooms'
       /\ resp'.token # << >> =>
             \E r \in DOMAIN rooms : rooms[r].name = resp'.token[1].video.room
      ]_vars

\* a join refused with 404 while another room and a membership are stored
C18_Witness ==
    /\ resp.op = "join"
    /\ resp.status = 404
    /\ rooms # << >>
    /\ members # << >>

\* C19: the room-deletion cascade is idempotent.  A delete by the creator of
\* an already deleted room is not refused and answers 200; its commit leaves
\* the room rows and every membership row that was inactive as they were,
\* and when the room and its rows are as a delete left them (all inactive)
\* the commit changes nothing at all.
C19_DeleteIdempotent ==
    [][/\ \A p \in Workers :
             (/\ req[p].pc = "delete_commit"
              /\ req'[p].pc = "delete_gateway"
              /\ ~rooms[req[p].room].is_active) =>
                /\ UNCHANGED <<users, rooms>>
                /\ DOMAIN members' = DOMAIN members
                /\ \A m \in DOMAIN members :
                      ~members[m].is_active => members'[m] = members[m]
                /\ (\A m \in RowsOfRoom(req[p].room) : ~members[m].is_active)
                      => UNCHANGED members
       /\ (/\ resp'.op = "delete"
           /\ resp'.room \in DOMAIN rooms
           /\ rooms[resp'.room].creator_id = resp'.user) =>
             /\ resp'.status = 200
             /\ ~rooms'[resp'.room].is_active]_vars

\* a second delete of a deleted room is about to commit: the rows it loaded
\* are the inactive rows the first delete left
C19_Witness ==
    \E p \in Workers :
        /\ req[p].pc = "delete_commit"
        /\ ~rooms[req[p].room].is_active
        /\ req[p].loaded # {}
        /\ \A m \in req[p].loaded : ~members[m].is_active

\* C20: whenever a join answers with a token for user u and room r, u has
\* an active membership row of r in the store at that moment, also when a
\* leave by u or a delete of r ran between the join's membership commit and
\* its token creation.
C20_TokenHolderIsMember ==
    (resp.op = "join" /\ resp.token # << >>) =>
       ActiveRows(resp.user, resp.room) # {}

\* C21: no operation of the HTTP surface issues an admin grant.  The
\* admin-grant method of the signer is never invoked; the signer is invoked
\* exactly by the joins that answer a token, and every token a response
\* carries is a room-join grant: join on, scoped to a room, none of the
\* administrative capabilities.  The session credential of a login is not
\* made by the signer and goes with no grant.
C21_NoAdminGrantIssued ==
    /\ resp.signer # "create_room_admin_token"
    /\ resp.signer \in {"none", "create_access_token"}
    /\ resp.signer = "create_access_token" <=> resp.token # << >>
    /\ resp.token # << >> =>
          /\ resp.op = "join"
          /\ \A i \in DOMAIN resp.token :
                /\ resp.token[i].video.room_join
                /\ resp.token[i].video.room # ""
                /\ ~resp.token[i].video.room_create
                /\ ~resp.token[i].video.room_list
                /\ ~resp.token[i].video.room_admin
    /\ resp.access_token # << >> =>
          /\ resp.op = "login"
          /\ resp.signer = "none"
          /\ resp.token = << >>

\* the creator of a room was handed a token for it, made by the room-join
\* method of the signer, while a second account exists
C21_Witness ==
    /\ resp.signer = "create_access_token"
    /\ resp.token # << >>
    /\ resp.room \in DOMAIN rooms
    /\ rooms[resp.room].creator_id = resp.user
    /\ Len(users) = 2

====
